---- MODULE Spec2Model ----
(***************************************************************************)
(* Model of the tasklaytics history engine (the useHistory hook) and of    *)
(* the flow engine (FlowEngine.js: executeFlow and what it calls).         *)
(*                                                                         *)
(* Snapshots are JavaScript objects, so the model keeps a heap: the        *)
(* history list holds the addresses of snapshot objects, and every         *)
(* snapshot object holds the address of its tasks array.  Aliasing is      *)
(* therefore visible: two list entries share substructure exactly when     *)
(* they hold the same address.                                             *)
(***************************************************************************)
EXTENDS Integers, Sequences, FiniteSets, TLC

VARIABLES
    heap,           \* address -> object (snapshot objects and tasks arrays)
    history,        \* useState: ordered list of snapshot addresses
    currentIndex,   \* useState: cursor, 0-based as in the source
    commitIndex,    \* useState: committed baseline, 0-based
    lastCall,       \* the hook call that produced this state
    flowExecutionHistory,   \* FlowEngine: module-level list of execution records
    executions,     \* number of executeFlow calls made so far
    irregular,      \* how many of them did not run the plain logging flow
    lastResult,     \* what the last executeFlow call returned
    lastRun,        \* what the last executeFlow call was made with and did
    probe,          \* a pure function of FlowEngine.js: its arguments and its answer
    flowLibrary,    \* useFlows useState: the flow definitions, in order
    flowBindings,   \* useFlows useState: target key -> list of bindings
    selectedFlowTarget,     \* useFlows useState: the target key clicked, or null
    bindingsMade,   \* how many binding ids attachFlow has drawn
    flowMode,       \* useFlows useState: the UI is in flow binding mode
    lastFire        \* what the last fireFlowsForEvent call was given and did

historyVars == <<heap, history, currentIndex, commitIndex, lastCall>>
useFlowsVars == <<flowLibrary, flowBindings, selectedFlowTarget, bindingsMade,
                  flowMode, lastFire>>
engineVars == <<flowExecutionHistory, executions, irregular, lastResult, lastRun>>
flowVars == <<engineVars, probe, useFlowsVars>>
vars == <<heap, history, currentIndex, commitIndex, lastCall,
          flowExecutionHistory, executions, irregular, lastResult, lastRun,
          probe, flowLibrary, flowBindings, selectedFlowTarget, bindingsMade,
          flowMode, lastFire>>

----------------------------------------------------------------------------
(* Bounds *)

MaxHist  == 3      \* applyChange is offered while the list is shorter
MaxMarks == 1      \* commit is offered while the label has fewer marks
MaxExecutions == 105   \* executeFlow is offered this many times
MaxIrregular  == 1     \* ... of which this many with another flow than the plain one
MaxRuns  == 2      \* executeFlow is offered this many times with flows of every shape
MaxConditions == 2     \* the longest condition list evaluateConditions is given
MaxBindings == 2       \* attachFlow is offered this many times

----------------------------------------------------------------------------
(* Values *)

\* undefined, where an object is expected: the address of no object
Undefined == 0

Times    == {"t1"}

\* The (label, mutator) pairs handed to applyChange: the one runCommand
\* builds for MoveTask (it writes into the tasks array of its argument), and
\* a mutator that raises after writing to its argument.
Changes ==
    {[label |-> "Move T-101 to Done", kind |-> "MoveTask", value |-> "Done"],
     [label |-> "Move T-101 to Done", kind |-> "raise", value |-> "Done"]}

JumpTargets == -1 .. MaxHist

----------------------------------------------------------------------------
(* Heap *)

Min(a, b) == IF a <= b THEN a ELSE b

Range(s) == {s[i] : i \in DOMAIN s}

\* The address a `new` object gets: the heap is dense, so the next one.
Alloc(h) == Len(h) + 1

\* Array.prototype.slice(0, n) for n >= 0
Slice(s, n) == SubSeq(s, 1, Min(n, Len(s)))

\* Addresses are not observable in JavaScript, so the objects of a state are
\* numbered in the order the history list reaches them (snapshot, then its
\* tasks array); objects no list entry reaches are garbage and are dropped.
Walk(hist, h) ==
    [k \in 1 .. 2 * Len(hist) |->
        IF k % 2 = 1 THEN hist[(k + 1) \div 2] ELSE h[hist[k \div 2]].tasks]

RECURSIVE Visit(_, _, _)
Visit(w, k, seen) ==
    IF k > Len(w) THEN seen
    ELSE IF w[k] \in Range(seen) THEN Visit(w, k + 1, seen)
    ELSE Visit(w, k + 1, Append(seen, w[k]))

Collect(S) ==
    LET old == Visit(Walk(S.history, S.heap), 1, <<>>)
        new(a) == CHOOSE n \in DOMAIN old : old[n] = a
        roots == Range(S.history)
    IN  [S EXCEPT
            !.heap = [n \in DOMAIN old |->
                        IF old[n] \in roots
                        THEN [S.heap[old[n]] EXCEPT !.tasks = new(S.heap[old[n]].tasks)]
                        ELSE S.heap[old[n]]],
            !.history = [i \in DOMAIN S.history |-> new(S.history[i])]]

----------------------------------------------------------------------------
(* useHistory: the hook's state is S = [heap, history, currentIndex,       *)
(* commitIndex]; the callbacks read the values captured by the render      *)
(* closure c and queue updater functions, which run on the latest state.   *)

\* const [history, ...] = useState(() => [initialSnapshot]) with the object
\* built by createInitialSnapshot()
createInitialSnapshot ==
    << [id |-> 0, label |-> [base |-> "Initial workspace state", marks |-> 0],
        timestamp |-> "t0", committed |-> FALSE,
        tasks |-> 2],
       [status |-> "Backlog"] >>

useHistory ==
    [heap |-> createInitialSnapshot, history |-> <<1>>,
     currentIndex |-> 0, commitIndex |-> 0]

\* history[i] of a JavaScript array: undefined outside the bounds
At(hist, i) == IF i >= 0 /\ i < Len(hist) THEN hist[i + 1] ELSE Undefined

\* The derived state of one render: the values the callbacks close over.
Render(S) ==
    [currentSnapshot |-> At(S.history, S.currentIndex),
     currentIndex    |-> S.currentIndex,
     commitIndex     |-> S.commitIndex,
     historyLength   |-> Len(S.history),
     canUndo         |-> S.currentIndex > S.commitIndex,
     canRedo         |-> S.currentIndex < Len(S.history) - 1]

\* JSON.parse(JSON.stringify(base)): a new snapshot object with a new tasks
\* array; own properties are copied by value, a property holding undefined
\* is dropped and so reads as undefined in the copy as well.
\* a shallow copy ({...base}): a new snapshot object, the same tasks array
JsonClone_shallow(h, base) ==
    [root |-> Alloc(h), heap |-> Append(h, h[base])]

JsonClone(h, base) ==
    LET r == Alloc(h)
        t == r + 1
    IN  [root |-> r,
         heap |-> h \o << [h[base] EXCEPT !.tasks = t], h[h[base].tasks] >>]

\* mutator(clone): the writes the callback makes through its argument
mutate(h, clone, mutator) ==
    [h EXCEPT ![h[clone].tasks].status = mutator.value]

\* typeof mutator === 'function' && mutator(clone) throws
raises(mutator) == mutator.kind = "raise"

\* applyChange that appends without cutting the redo branch
applyChange_noTrim(S, c, label, mutator, now) ==
    IF c.currentSnapshot = Undefined THEN S     \* JSON.parse(undefined) throws
    ELSE
    LET cl == JsonClone(S.heap, c.currentSnapshot)
        clone == cl.root
        h1 == mutate(cl.heap, clone, mutator)
        h2 == [h1 EXCEPT ![clone].id = c.historyLength,
                         ![clone].label = [base |-> label, marks |-> 0],
                         ![clone].timestamp = now]
    IN  IF raises(mutator) THEN S
        ELSE [S EXCEPT !.heap = h2,
                       !.history = Append(S.history, clone),
                       !.currentIndex = S.currentIndex + 1]

\* applyChange that catches the mutator's exception and appends anyway
applyChange_swallow(S, c, label, mutator, now) ==
    IF c.currentSnapshot = Undefined THEN S     \* JSON.parse(undefined) throws
    ELSE
    LET cl == JsonClone(S.heap, c.currentSnapshot)
        clone == cl.root
        h1 == mutate(cl.heap, clone, mutator)
        h2 == [h1 EXCEPT ![clone].id = c.historyLength,
                         ![clone].label = [base |-> label, marks |-> 0],
                         ![clone].timestamp = now]
    IN  [S EXCEPT !.heap = h2,
                  !.history = Slice(S.history, c.currentIndex + 1) \o <<clone>>,
                  !.currentIndex = S.currentIndex + 1]

applyChange(S, c, label, mutator, now) ==
    IF c.currentSnapshot = Undefined THEN S     \* JSON.parse(undefined) throws
    ELSE
    LET cl == JsonClone(S.heap, c.currentSnapshot)
        clone == cl.root
        h1 == mutate(cl.heap, clone, mutator)
        h2 == [h1 EXCEPT ![clone].id = c.historyLength,
                         ![clone].label = [base |-> label, marks |-> 0],
                         ![clone].timestamp = now]
    IN  IF raises(mutator) THEN S
        ELSE [S EXCEPT !.heap = h2,
                       !.history = Slice(S.history, c.currentIndex + 1) \o <<clone>>,
                       !.currentIndex = S.currentIndex + 1]

\* undo guarded by currentIndex > 0 instead of canUndo
undo_guardZero(S, c) ==
    IF ~(c.currentIndex > 0) THEN S
    ELSE [S EXCEPT !.currentIndex = S.currentIndex - 1]

undo(S, c) ==
    IF ~c.canUndo THEN S
    ELSE [S EXCEPT !.currentIndex = S.currentIndex - 1]

\* redo guarded by currentIndex < history.length
redo_offByOne(S, c) ==
    IF ~(c.currentIndex < c.historyLength) THEN S
    ELSE [S EXCEPT !.currentIndex = S.currentIndex + 1]

redo(S, c) ==
    IF ~c.canRedo THEN S
    ELSE [S EXCEPT !.currentIndex = S.currentIndex + 1]

\* `${snap.label || 'Snapshot'} (committed)`
committedLabel(label) ==
    IF label.base = "" /\ label.marks = 0
    THEN [base |-> "Snapshot", marks |-> 1]
    ELSE [label EXCEPT !.marks = label.marks + 1]

\* commit that marks the snapshot but never moves the baseline
commit_noBaseline(S, c) ==
    LET snap == At(S.history, c.currentIndex)
        updated == Alloc(S.heap)
    IN  IF snap = Undefined
        THEN S
        ELSE [S EXCEPT
                !.heap = Append(S.heap,
                                [S.heap[snap] EXCEPT
                                    !.committed = TRUE,
                                    !.label = committedLabel(S.heap[snap].label)]),
                !.history = [S.history EXCEPT ![c.currentIndex + 1] = updated]]

commit(S, c) ==
    LET snap == At(S.history, c.currentIndex)
        updated == Alloc(S.heap)
    IN  IF snap = Undefined
        THEN [S EXCEPT !.commitIndex = c.currentIndex]
        ELSE [S EXCEPT
                !.heap = Append(S.heap,
                                [S.heap[snap] EXCEPT
                                    !.committed = TRUE,
                                    !.label = committedLabel(S.heap[snap].label)]),
                !.history = [S.history EXCEPT ![c.currentIndex + 1] = updated],
                !.commitIndex = c.currentIndex]

\* jump that lets index = history.length through
jump_upperOffByOne(S, c, index) ==
    IF index < c.commitIndex \/ index < 0 \/ index > c.historyLength THEN S
    ELSE [S EXCEPT !.currentIndex = index]

\* jump without the commit-baseline test
jump_noBaseline(S, c, index) ==
    IF index < 0 \/ index >= c.historyLength THEN S
    ELSE [S EXCEPT !.currentIndex = index]

jump(S, c, index) ==
    IF index < c.commitIndex \/ index < 0 \/ index >= c.historyLength THEN S
    ELSE [S EXCEPT !.currentIndex = index]

----------------------------------------------------------------------------
(* Values of the flow engine *)

JsUndefined == "<undefined>"
JsNull      == "<null>"
JsFalse     == "<false>"
JsObject    == "<object>"

\* !v for the values of the model
Falsy(v) == v \in {JsUndefined, JsNull, JsFalse, ""}

\* A literal chunk, a {{path}} chunk, and a value that is not a string
Text(s)     == [token |-> FALSE, text |-> s, path |-> <<>>]
Token(path) == [token |-> TRUE, text |-> "{{...}}", path |-> path]
NotAString  == <<[token |-> FALSE, text |-> JsUndefined, path |-> <<>>]>>

\* executeFlow called without a flow, a null entry of flow.conditions, and
\* the config: null of an action
NoFlow        == [id |-> JsUndefined, enabled |-> FALSE, sendToBackend |-> FALSE,
                  conditions |-> <<>>, actions |-> <<>>]
NullCondition == [field |-> <<>>, operator |-> JsNull, value |-> JsNull]
NullConfig    == [message |-> NotAString, level |-> JsNull, targetType |-> JsNull,
                  commandType |-> JsNull]

\* { k: rec.k, ... } for an object without nested members
Object(rec) == [p \in {<<k>> : k \in DOMAIN rec} |-> rec[p[1]]]

DroppedEvent == Object([eventType |-> "task.dropped", taskId |-> "T-101",
                        fromStatus |-> "Backlog", toStatus |-> "Backlog"])

DoneEvent == Object([eventType |-> "task.dropped", taskId |-> "T-101",
                     fromStatus |-> "Backlog", toStatus |-> "Done"])

\* the members of createInitialSnapshot() the flows of the model read
SnapshotObject ==
    Object([view |-> "Dashboard", briefLocked |-> JsFalse, workspace |-> JsObject])
    @@ (<<"workspace", "methodology">> :> "Scrum")

\* the context of a caller that wires no command dispatcher, and of one
\* that does; runCommandThrows: the dispatcher wired raises when it is
\* handed a command that changes the workspace
BareContext == [runCommand |-> FALSE, currentSnapshot |-> SnapshotObject,
                runCommandThrows |-> FALSE]
DispatchContext == [runCommand |-> TRUE, currentSnapshot |-> SnapshotObject,
                    runCommandThrows |-> FALSE]

\* what a call is made with besides the flow: the event, the context and
\* the backend sink of the window
PlainEnv == [eventPayload |-> DroppedEvent, context |-> BareContext,
             sink |-> "absent"]

NoRun == [flow |-> NoFlow, env |-> PlainEnv, trace |-> <<>>,
          relayed |-> FALSE, threw |-> FALSE]

Config(message) == [message |-> message, level |-> "info", targetType |-> JsUndefined,
                    commandType |-> JsUndefined]

\* The seeded flow library
INITIAL_FLOW_LIBRARY ==
    <<[id |-> "flow-notify-ops-on-task-drop", enabled |-> TRUE,
       sendToBackend |-> TRUE, conditions |-> <<>>,
       actions |-> <<[type |-> "show_notification",
                      config |-> Config(<<Text("Task "), Token(<<"taskId">>),
                                          Text(" moved to "),
                                          Token(<<"toStatus">>)>>)],
                     [type |-> "log_message",
                      config |-> Config(<<Text("Task movement logged")>>)]>>],
      [id |-> "flow-checklist-on-task-start", enabled |-> TRUE,
       sendToBackend |-> TRUE,
       conditions |-> <<[field |-> <<"toStatus">>, operator |-> "equals",
                         value |-> "In Progress"]>>,
       actions |-> <<[type |-> "show_notification",
                      config |-> Config(<<Text("Task "), Token(<<"taskId">>),
                                          Text(" is now in progress!")>>)]>>],
      [id |-> "flow-metrics-on-commit", enabled |-> TRUE,
       sendToBackend |-> TRUE, conditions |-> <<>>,
       actions |-> <<[type |-> "log_message",
                      config |-> Config(<<Text("Workspace committed at "),
                                          Token(<<"timestamp">>)>>)]>>],
      [id |-> "flow-task-completed", enabled |-> TRUE,
       sendToBackend |-> TRUE,
       conditions |-> <<[field |-> <<"toStatus">>, operator |-> "equals",
                         value |-> "Done"]>>,
       actions |-> <<[type |-> "show_notification",
                      config |-> Config(<<Text("Great job! Task "),
                                          Token(<<"taskId">>),
                                          Text(" is complete.")>>)]>>]>>

\* useState({}) of the bindings, and no event fired yet
NoBindings == [key \in {} |-> <<>>]

NoFire == [n |-> 0, eventType |-> JsNull, payload |-> DroppedEvent,
           invoked |-> <<>>, wouldExecute |-> <<>>]

\* no pure function applied
NoProbe == [kind |-> "none", stage |-> "done", conditions |-> <<>>,
            template |-> <<>>, path |-> <<"toStatus">>,
            payloadValue |-> JsUndefined, snapshotValue |-> JsUndefined,
            verdict |-> "none", text |-> <<>>]

----------------------------------------------------------------------------
(* One action per call of the hook from an event handler; React renders    *)
(* again before the next handler runs, so each call sees a fresh closure.  *)

State == [heap |-> heap, history |-> history,
          currentIndex |-> currentIndex, commitIndex |-> commitIndex]

Becomes(S) ==
    LET T == Collect(S)
    IN  /\ heap' = T.heap
        /\ history' = T.history
        /\ currentIndex' = T.currentIndex
        /\ commitIndex' = T.commitIndex

\* The state after construction, but for the probe
Constructed ==
    /\ heap = useHistory.heap
    /\ history = useHistory.history
    /\ currentIndex = useHistory.currentIndex
    /\ commitIndex = useHistory.commitIndex
    /\ lastCall = [op |-> "useHistory", outcome |-> "done"]
    /\ flowExecutionHistory = <<>>
    /\ executions = 0
    /\ irregular = 0
    /\ lastResult = [success |-> FALSE, reason |-> "none", executionId |-> 0,
                     actionsPerformed |-> 0, errors |-> <<>>]
    /\ lastRun = NoRun
    /\ flowLibrary = INITIAL_FLOW_LIBRARY
    /\ flowBindings = NoBindings
    /\ selectedFlowTarget = JsNull
    /\ bindingsMade = 0
    /\ flowMode = FALSE
    /\ lastFire = NoFire

Init == Constructed /\ probe = NoProbe

\* applyChange(change.label, change) called with the clock reading now
ApplyChangeStep(change, now) ==
    /\ Becomes(applyChange(State, Render(State), change.label, change, now))
    /\ lastCall' = [op |-> "applyChange",
                    outcome |-> IF raises(change) THEN "raised" ELSE "done"]

CallApplyChange ==
    \E change \in Changes, now \in Times :
        /\ Len(history) < MaxHist \/ currentIndex < Len(history) - 1
        /\ ApplyChangeStep(change, now)
        /\ UNCHANGED flowVars

CallUndo ==
    /\ Becomes(undo(State, Render(State)))
    /\ lastCall' = [op |-> "undo",
                    outcome |-> IF Render(State).canUndo THEN "done" ELSE "ignored"]
    /\ UNCHANGED flowVars

CallRedo ==
    /\ Becomes(redo(State, Render(State)))
    /\ lastCall' = [op |-> "redo",
                    outcome |-> IF Render(State).canRedo THEN "done" ELSE "ignored"]
    /\ UNCHANGED flowVars

CallCommit ==
    /\ currentIndex < Len(history)
          => heap[history[currentIndex + 1]].label.marks < MaxMarks
    /\ Becomes(commit(State, Render(State)))
    /\ lastCall' = [op |-> "commit", outcome |-> "done"]
    /\ UNCHANGED flowVars

\* jump(index)
JumpStep(index) ==
    /\ Becomes(jump(State, Render(State), index))
    /\ lastCall' = [op |-> "jump",
                    outcome |-> IF jump(State, Render(State), index) = State
                                   /\ index # currentIndex
                                THEN "ignored" ELSE "done"]

CallJump == \E index \in JumpTargets : JumpStep(index) /\ UNCHANGED flowVars

Next == CallApplyChange \/ CallUndo \/ CallRedo \/ CallCommit \/ CallJump

Spec == Init /\ [][Next]_vars

----------------------------------------------------------------------------
(* The hook returns currentSnapshot = history[currentIndex]: the consumer  *)
(* holds the stored object itself.  A consumer that writes through it,     *)
(* outside any mutator, writes into the heap the history list points to.   *)

WriteCurrentSnapshot ==
    /\ Render(State).currentSnapshot # Undefined
    /\ heap[heap[Render(State).currentSnapshot].tasks].status # "Blocked"
    /\ heap' = [heap EXCEPT
                  ![heap[Render(State).currentSnapshot].tasks].status = "Blocked"]
    /\ UNCHANGED <<history, currentIndex, commitIndex>>
    /\ lastCall' = [op |-> "write", outcome |-> "done"]
    /\ UNCHANGED flowVars

NextAlias == Next \/ WriteCurrentSnapshot

SpecAlias == Init /\ [][NextAlias]_vars

----------------------------------------------------------------------------
(* commit() called again directly after commit(), as by two Commit         *)
(* commands in a row.                                                      *)

CallCommitAgain ==
    /\ lastCall.op = "commit"
    /\ currentIndex < Len(history)
          => heap[history[currentIndex + 1]].label.marks <= MaxMarks
    /\ Becomes(commit(State, Render(State)))
    /\ lastCall' = [op |-> "commit", outcome |-> "again"]
    /\ UNCHANGED flowVars

NextTwice == Next \/ CallCommitAgain

SpecTwice == Init /\ [][NextTwice]_vars

----------------------------------------------------------------------------
(* The History panel: App hands it history, currentIndex, commitIndex and  *)
(* jump as onJump; an entry is clickable or disabled by canJumpTo, and a   *)
(* click goes through handleJump.                                          *)

canJumpTo(c, idx) == idx >= 0 /\ idx <= c.commitIndex

\* handleJump(idx): onJump(idx) if the entry can be jumped to
handleJump(S, c, idx) == IF canJumpTo(c, idx) THEN jump(S, c, idx) ELSE S

\* onClick of the entry at idx
ClickEntry ==
    \E idx \in 0 .. (Len(history) - 1) :
        /\ Becomes(handleJump(State, Render(State), idx))
        /\ lastCall' = [op |-> "click",
                        outcome |-> IF canJumpTo(Render(State), idx)
                                    THEN "clickable" ELSE "disabled",
                        index |-> idx]
        /\ UNCHANGED flowVars

NextPanel == Next \/ ClickEntry

SpecPanel == Init /\ [][NextPanel]_vars

----------------------------------------------------------------------------
(* FlowEngine.js.  JavaScript values are modelled by strings, with         *)
(* reserved ones for undefined, null, false and a nested object.  A dotted *)
(* path is the sequence of its parts ("a.b" is <<"a", "b">>, "" is <<>>),  *)
(* and an object is a function from the paths of its members to their      *)
(* values.  A string that may hold {{...}} tokens is the sequence of its   *)
(* chunks: literal text, or one token with the path written inside it.     *)

\* obj[part] along the parts of the path
Member(obj, parts) == IF parts \in DOMAIN obj THEN obj[parts] ELSE JsUndefined

getValueFromPath(obj, path) ==
    IF path = <<>> THEN JsUndefined
    ELSE IF \E n \in 1 .. (Len(path) - 1) :
               Member(obj, SubSeq(path, 1, n)) \in {JsUndefined, JsNull}
         THEN JsUndefined
         ELSE Member(obj, path)

\* String(v)
JsString(v) ==
    CASE v = JsUndefined -> "undefined"
      [] v = JsNull -> "null"
      [] v = JsFalse -> "false"
      [] v = JsObject -> "[object Object]"
      [] OTHER -> v

\* Number(v): -1 stands for NaN
JsNumber(v) ==
    CASE v = "3" -> 3
      [] v = "5" -> 5
      [] v \in {"", JsNull, JsFalse} -> 0
      [] OTHER -> -1

\* a.includes(b) for the strings of the model, none of which is a proper
\* substring of another except the empty string
Includes(a, b) == b = "" \/ a = b

\* getValueFromPath(eventPayload, path) ||
\* getValueFromPath(context.currentSnapshot, path)
actualValue(path, eventPayload, context) ==
    IF Falsy(getValueFromPath(eventPayload, path))
    THEN getValueFromPath(context.currentSnapshot, path)
    ELSE getValueFromPath(eventPayload, path)

\* str.replace(/\{\{([^}]+)\}\}/g, ...): every token chunk is replaced by
\* what the callback returns for it
interpolateVariables(str, eventPayload, context) ==
    IF str = NotAString THEN str
    ELSE [k \in DOMAIN str |->
            IF ~str[k].token THEN str[k]
            ELSE LET value == actualValue(str[k].path, eventPayload, context)
                 IN  IF value # JsUndefined THEN Text(JsString(value))
                     ELSE str[k]]

KnownOperators == {"equals", "not_equals", "contains", "greater_than",
                   "less_than", "exists", "not_exists"}

compare_failOpen(operator, actual, expectedValue) ==
    operator \notin KnownOperators \/ actual = expectedValue

\* switch (operator)
compare(operator, actual, expectedValue) ==
    CASE operator = "equals" -> actual = expectedValue
      [] operator = "not_equals" -> actual # expectedValue
      [] operator = "contains" ->
            Includes(JsString(actual), JsString(expectedValue))
      [] operator = "greater_than" ->
            /\ JsNumber(actual) # -1
            /\ JsNumber(expectedValue) # -1
            /\ JsNumber(actual) > JsNumber(expectedValue)
      [] operator = "less_than" ->
            /\ JsNumber(actual) # -1
            /\ JsNumber(expectedValue) # -1
            /\ JsNumber(actual) < JsNumber(expectedValue)
      [] operator = "exists" -> actual # JsUndefined /\ actual # JsNull
      [] operator = "not_exists" -> actual = JsUndefined \/ actual = JsNull
      [] OTHER -> FALSE

\* One condition of evaluateConditions' every(): "true", "false" or "throws"
evaluateCondition(condition, eventPayload, context) ==
    IF condition = NullCondition THEN "throws"    \* destructuring null
    ELSE IF compare(condition.operator,
                    actualValue(condition.field, eventPayload, context),
                    condition.value)
         THEN "true" ELSE "false"

evaluateConditions_vacuous(conditions, eventPayload, context) == "true"

\* conditions.every(...): stops at the first condition that is false
RECURSIVE evaluateConditions(_, _, _)
evaluateConditions(conditions, eventPayload, context) ==
    IF conditions = <<>> THEN "true"
    ELSE LET first == evaluateCondition(Head(conditions), eventPayload, context)
         IN  IF first = "true"
             THEN evaluateConditions(Tail(conditions), eventPayload, context)
             ELSE first

\* executeAction: whether the action threw, and otherwise the result object
\* it returned (its success flag, its interpolated message, its reason) and
\* the type of the command it handed to context.runCommand, null if it
\* handed none
NoMessage == <<>>
NoReason == <<>>

\* the command types App's runCommand answers with applyChange
ChangingCommands == {"MoveTask", "UpdateTaskField"}

\* runCommand: { success: false, reason: 'No runCommand function available' }
NoDispatcher == <<"No runCommand function available">>

hasDispatcher_always(context) == TRUE

\* context.runCommand is there to be called
hasDispatcher(context) == context.runCommand

Threw == [threw |-> TRUE, success |-> FALSE, message |-> NoMessage,
          reason |-> NoReason, command |-> JsNull, dispatched |-> FALSE]

executeAction(action, eventPayload, context) ==
    CASE action.type \in {"show_notification", "log_message"} ->
            IF action.config = NullConfig
            THEN Threw     \* config.message of null
            ELSE [threw |-> FALSE, success |-> TRUE,
                  message |-> interpolateVariables(action.config.message,
                                                   eventPayload, context),
                  reason |-> NoReason, command |-> JsNull, dispatched |-> FALSE]
      [] action.type = "run_command" ->
            IF ~hasDispatcher(context)
            THEN \* no dispatcher in the context: { success: false, reason }
                 [threw |-> FALSE, success |-> FALSE, message |-> NoMessage,
                  reason |-> NoDispatcher, command |-> JsNull,
                  dispatched |-> FALSE]
            ELSE IF action.config = NullConfig
            THEN Threw     \* destructuring null
            ELSE IF context.runCommandThrows
                    /\ action.config.commandType \in ChangingCommands
            THEN [Threw EXCEPT !.dispatched = TRUE]
            ELSE [threw |-> FALSE, success |-> TRUE, message |-> NoMessage,
                  reason |-> NoReason, command |-> action.config.commandType,
                  dispatched |-> TRUE]
      [] action.type = "update_field" ->
            IF action.config = NullConfig
            THEN Threw     \* destructuring null
            ELSE IF action.config.targetType = "task" /\ hasDispatcher(context)
            THEN IF context.runCommandThrows
                 THEN [Threw EXCEPT !.dispatched = TRUE]
                 ELSE [threw |-> FALSE, success |-> TRUE, message |-> NoMessage,
                       reason |-> NoReason, command |-> "UpdateTaskField",
                       dispatched |-> TRUE]
            ELSE [threw |-> FALSE, success |-> FALSE, message |-> NoMessage,
                  reason |-> <<"Unsupported target type: ",
                               JsString(action.config.targetType)>>,
                  command |-> JsNull, dispatched |-> FALSE]
      [] OTHER -> [threw |-> FALSE, success |-> FALSE, message |-> NoMessage,
                   reason |-> <<"Unknown action type: ", action.type>>,
                   command |-> JsNull, dispatched |-> FALSE]

RECURSIVE runActions_abort(_, _, _, _, _)
runActions_abort(actions, index, eventPayload, context, run) ==
    IF index >= Len(actions) THEN run
    ELSE LET action == actions[index + 1]
             result == executeAction(action, eventPayload, context)
             trace == Append(run.trace, [step |-> "action", index |-> index])
         IN  IF result.threw
             THEN [log |-> [run.log EXCEPT !.errors =
                              Append(@, [actionIndex |-> index, error |-> "TypeError"])],
                   trace |-> trace]
             ELSE runActions_abort(actions, index + 1, eventPayload, context,
                    [log |-> [run.log EXCEPT !.actionsPerformed =
                                Append(@, [index |-> index, type |-> action.type,
                                           success |-> result.success,
                                           message |-> result.message,
                                           reason |-> result.reason,
                                           command |-> result.command])],
                     trace |-> trace])

\* flow.actions.forEach with the try/catch around each action.  run.log is
\* the execution record being filled, run.trace the order in which things
\* were attempted.
RECURSIVE runActions(_, _, _, _, _)
runActions(actions, index, eventPayload, context, run) ==
    IF index >= Len(actions) THEN run
    ELSE LET action == actions[index + 1]
             result == executeAction(action, eventPayload, context)
         IN  runActions(actions, index + 1, eventPayload, context,
                [log |->
                    IF result.threw
                    THEN [run.log EXCEPT !.errors =
                            Append(@, [actionIndex |-> index, error |-> "TypeError"])]
                    ELSE [run.log EXCEPT !.actionsPerformed =
                            Append(@, [index |-> index, type |-> action.type,
                                       success |-> result.success,
                                       message |-> result.message,
                                       reason |-> result.reason,
                                       command |-> result.command])],
                 trace |-> Append(run.trace, [step |-> "action", index |-> index])])

\* sendToBackend(flow, eventPayload, executionLog): window.TasklyticsFlowClient
\* is absent, has a send that returns, or has a send that throws
Sinks == {"absent", "accepts", "throws"}

sendToBackend_noCatch(flow, eventPayload, sink) ==
    [delivered |-> sink = "accepts", threw |-> sink = "throws"]

sendToBackend(flow, eventPayload, sink) ==
    [delivered |-> sink = "accepts", threw |-> FALSE]

Unshift_dropped(list, x) == list

\* Array.prototype.unshift
Unshift(list, x) == <<x>> \o list

\* The capacity of the execution log
LogCapacity == 100

Failed_rethrow(log) == [log |-> log, rethrown |-> TRUE]

\* The catch block of executeFlow: the record it leaves, and whether the
\* exception goes on to the caller
Failed(log) ==
    [log |-> [log EXCEPT
                !.status = "failed",
                !.errors = Append(@, [actionIndex |-> -1, error |-> "TypeError"])],
     rethrown |-> FALSE]

\* the types of the commands the performed actions handed to
\* context.runCommand, in order
Forwarded(actionsPerformed) ==
    LET with == SelectSeq(actionsPerformed, LAMBDA e : e.command # JsNull)
    IN  [k \in DOMAIN with |-> with[k].command]

\* executeFlow(flow, eventPayload, context) on the module's list, with the
\* backend sink the window holds; the answer holds the new list, the
\* returned object, what was attempted in which order, whether the relay
\* was attempted, whether the call threw and the commands forwarded.
executeFlow(list, flow, eventPayload, context, sink, executionId) ==
    IF flow = NoFlow \/ ~flow.enabled
    THEN [list |-> list, relayed |-> FALSE, trace |-> <<>>, threw |-> FALSE,
          commands |-> <<>>,
          result |-> [success |-> FALSE, reason |-> "Flow disabled or not found",
                      executionId |-> 0, actionsPerformed |-> 0, errors |-> <<>>]]
    ELSE
    LET executionLog == [id |-> executionId, flowId |-> flow.id,
                         eventType |-> getValueFromPath(eventPayload, <<"eventType">>),
                         status |-> "running",
                         actionsPerformed |-> <<>>, errors |-> <<>>]
        conditionsMet == evaluateConditions(flow.conditions, eventPayload, context)
        ran == runActions(flow.actions, 0, eventPayload, context,
                          [log |-> executionLog, trace |-> <<>>])
        relayed == conditionsMet = "true" /\ flow.sendToBackend # FALSE
        relay == sendToBackend(flow, eventPayload, sink)
        trace == IF conditionsMet # "true" THEN <<>>
                 ELSE IF relayed
                      THEN Append(ran.trace, [step |-> "relay", index |-> -1])
                      ELSE ran.trace
        failed == conditionsMet = "throws" \/ (relayed /\ relay.threw)
        caught == Failed(IF conditionsMet = "throws" THEN executionLog ELSE ran.log)
        final ==
            IF failed THEN caught.log
            ELSE [ran.log EXCEPT
                    !.status = IF Len(ran.log.errors) > 0
                               THEN "completed_with_errors" ELSE "completed"]
        appended == Unshift(list, final)
    IN  IF conditionsMet = "false"
        THEN [list |-> Unshift(list, [executionLog EXCEPT !.status = "skipped"]),
              relayed |-> FALSE, trace |-> <<>>, threw |-> FALSE,
              commands |-> <<>>,
              result |-> [success |-> FALSE, reason |-> "Conditions not met",
                          executionId |-> executionId,
                          actionsPerformed |-> 0, errors |-> <<>>]]
        ELSE IF failed /\ caught.rethrown
        THEN [list |-> list, relayed |-> relayed, trace |-> trace, threw |-> TRUE,
              commands |-> IF conditionsMet = "true"
                           THEN Forwarded(ran.log.actionsPerformed) ELSE <<>>,
              result |-> [success |-> FALSE, reason |-> "thrown",
                          executionId |-> executionId,
                          actionsPerformed |-> 0, errors |-> <<>>]]
        ELSE [list |-> IF Len(appended) > LogCapacity
                       THEN SubSeq(appended, 1, LogCapacity) ELSE appended,
              relayed |-> relayed, trace |-> trace, threw |-> FALSE,
              commands |-> IF conditionsMet = "true"
                           THEN Forwarded(ran.log.actionsPerformed) ELSE <<>>,
              result |-> [success |-> final.status = "completed",
                          reason |-> "none",
                          executionId |-> executionId,
                          actionsPerformed |-> Len(final.actionsPerformed),
                          errors |-> final.errors]]

\* getExecutionHistory(limit)
getExecutionHistory(list, limit) == SubSeq(list, 1, Min(limit, Len(list)))

----------------------------------------------------------------------------
(* Calls of executeFlow.  The flows are the seeded logging flow and one    *)
(* flow for every other way a call can end.                                *)

LogAction == [type |-> "log_message",
              config |-> Config(<<Text("Task "), Token(<<"taskId">>), Text(" moved")>>)]

NullConfigAction == [type |-> "log_message", config |-> NullConfig]

PlainFlow ==
    [id |-> "flow-log", enabled |-> TRUE, sendToBackend |-> TRUE,
     conditions |-> <<>>, actions |-> <<LogAction>>]

IrregularFlows ==
    {NoFlow,
     [PlainFlow EXCEPT !.id = "flow-disabled", !.enabled = FALSE],
     [PlainFlow EXCEPT !.id = "flow-done-only", !.sendToBackend = FALSE,
        !.conditions = <<[field |-> <<"toStatus">>, operator |-> "equals",
                          value |-> "Done"]>>],
     [PlainFlow EXCEPT !.id = "flow-bad-condition",
        !.conditions = <<NullCondition>>],
     [PlainFlow EXCEPT !.id = "flow-bad-action",
        !.actions = <<LogAction, NullConfigAction,
                      [type |-> "run_command", config |-> Config(NotAString)]>>]}

ExecuteFlowStep(flow, env) ==
    LET call == executeFlow(flowExecutionHistory, flow, env.eventPayload,
                            env.context, env.sink, executions + 1)
    IN  /\ executions' = executions + 1
        /\ flowExecutionHistory' = call.list
        /\ lastResult' = call.result
        /\ lastRun' = [flow |-> flow, env |-> env, trace |-> call.trace,
                       relayed |-> call.relayed, threw |-> call.threw]
        /\ UNCHANGED <<historyVars, probe, useFlowsVars>>

ExecutePlainFlow ==
    /\ executions < MaxExecutions
    /\ ExecuteFlowStep(PlainFlow, PlainEnv)
    /\ UNCHANGED irregular

ExecuteIrregularFlow ==
    \E flow \in IrregularFlows :
        /\ executions < MaxExecutions
        /\ irregular < MaxIrregular
        /\ irregular' = irregular + 1
        /\ ExecuteFlowStep(flow, PlainEnv)

NextLog == ExecutePlainFlow \/ ExecuteIrregularFlow

SpecLog == Init /\ [][NextLog]_vars

----------------------------------------------------------------------------
(* Calls of executeFlow with flows of every shape.  A call is made with a  *)
(* flow, an event, a context and whatever backend sink the window holds.   *)

\* three actions of which the one at 0-based index i has config: null
ThrowsAt(i) ==
    [PlainFlow EXCEPT !.id = "flow-throws",
        !.actions = [k \in 1 .. 3 |-> IF k = i + 1 THEN NullConfigAction
                                      ELSE LogAction]]

\* actions that return { success: false } without throwing: an unknown
\* type, run_command, update_field on something that is not a task
UnknownAction == [type |-> "send_email", config |-> Config(NotAString)]
RunCommandAction == [type |-> "run_command", config |-> Config(NotAString)]
UpdateFieldAction ==
    [type |-> "update_field",
     config |-> [Config(NotAString) EXCEPT !.targetType = "sprint"]]

DoneOnly == [field |-> <<"toStatus">>, operator |-> "equals", value |-> "Done"]

Flows ==
    IrregularFlows
    \cup {PlainFlow,
          [PlainFlow EXCEPT !.id = "flow-quiet", !.sendToBackend = FALSE],
          [PlainFlow EXCEPT !.id = "flow-done-relay", !.conditions = <<DoneOnly>>],
          [PlainFlow EXCEPT !.id = "flow-no-actions", !.actions = <<>>],
          [PlainFlow EXCEPT !.id = "flow-unknown",
             !.actions = <<UnknownAction, LogAction>>],
          [PlainFlow EXCEPT !.id = "flow-soft-fail",
             !.actions = <<RunCommandAction, UpdateFieldAction, LogAction>>]}
    \cup {ThrowsAt(i) : i \in 0 .. 2}

Environments ==
    {PlainEnv,
     [eventPayload |-> DoneEvent, context |-> DispatchContext, sink |-> "accepts"],
     [eventPayload |-> DoneEvent, context |-> BareContext, sink |-> "throws"],
     [eventPayload |-> DroppedEvent, context |-> DispatchContext, sink |-> "throws"]}

ExecuteFlow ==
    \E flow \in Flows, env \in Environments :
        /\ executions < MaxRuns
        /\ ExecuteFlowStep(flow, env)
        /\ UNCHANGED irregular

NextFlow == ExecuteFlow

SpecFlow == Init /\ [][NextFlow]_vars

----------------------------------------------------------------------------
(* The pure functions of FlowEngine.js applied to arguments drawn from     *)
(* bounded sets: a condition list or a string with tokens, an event        *)
(* payload and a snapshot.  The payload and the snapshot hold, or do not   *)
(* hold, a member at the path the conditions and the tokens name; a probe  *)
(* records the path and the two members, and the objects are built from    *)
(* them.                                                                   *)

ProbePaths == {<<"toStatus">>, <<"workspace", "methodology">>}

\* what the payload holds at the path; JsUndefined: nothing
PayloadValues == {JsUndefined, JsNull, JsFalse, "", "Done", "3"}

\* what the snapshot holds at the path
SnapshotValues == {JsUndefined, "Done", "5"}

\* { ...base, path: value } with the objects on the way to the member
With(base, path, value) ==
    IF value = JsUndefined THEN base
    ELSE (path :> value)
         @@ [q \in {SubSeq(path, 1, n) : n \in 1 .. (Len(path) - 1)} |-> JsObject]
         @@ base

ProbeConditions(path) ==
    {[field |-> path, operator |-> "equals", value |-> "Done"],
     [field |-> path, operator |-> "not_equals", value |-> "Done"],
     [field |-> path, operator |-> "contains", value |-> ""],
     [field |-> path, operator |-> "greater_than", value |-> "3"],
     [field |-> path, operator |-> "less_than", value |-> "5"],
     [field |-> path, operator |-> "exists", value |-> JsUndefined],
     [field |-> path, operator |-> "not_exists", value |-> JsUndefined],
     [field |-> path, operator |-> "matches", value |-> "Done"]}

ConditionLists(path) ==
    UNION {[1 .. n -> ProbeConditions(path)] : n \in 0 .. MaxConditions}

Templates(path) ==
    {<<>>,
     <<Text("Task moved")>>,
     <<Token(path), Text(" done")>>,
     <<Text("Moved to "), Token(path), Text(" by "), Token(<<"assignee">>)>>,
     NotAString}

ProbeOf(kind, path, conditions, template, pv, sv) ==
    [kind |-> kind, stage |-> "input", conditions |-> conditions,
     template |-> template, path |-> path,
     payloadValue |-> pv, snapshotValue |-> sv,
     verdict |-> "none", text |-> <<>>]

\* the arguments the probe stands for
ProbePayload ==
    With(Object([eventType |-> "task.dropped"]), probe.path, probe.payloadValue)

ProbeContext ==
    [runCommand |-> FALSE, runCommandThrows |-> FALSE,
     currentSnapshot |-> With(Object([view |-> "Dashboard"]), probe.path,
                              probe.snapshotValue)]

InitProbe ==
    /\ Constructed
    /\ \E path \in ProbePaths, pv \in PayloadValues, sv \in SnapshotValues :
          \/ \E conditions \in ConditionLists(path) :
                probe = ProbeOf("conditions", path, conditions, <<>>, pv, sv)
          \/ \E template \in Templates(path) :
                probe = ProbeOf("template", path, <<>>, template, pv, sv)

CallEvaluateConditions ==
    /\ probe.kind = "conditions"
    /\ probe.stage = "input"
    /\ probe' = [probe EXCEPT
                   !.stage = "done",
                   !.verdict = evaluateConditions(probe.conditions,
                                                 ProbePayload, ProbeContext)]
    /\ UNCHANGED <<historyVars, engineVars, useFlowsVars>>

CallInterpolateVariables ==
    /\ probe.kind = "template"
    /\ probe.stage = "input"
    /\ probe' = [probe EXCEPT
                   !.stage = "done",
                   !.text = interpolateVariables(probe.template,
                                                ProbePayload, ProbeContext)]
    /\ UNCHANGED <<historyVars, engineVars, useFlowsVars>>

NextProbe == CallEvaluateConditions \/ CallInterpolateVariables

SpecProbe == InitProbe /\ [][NextProbe]_vars

----------------------------------------------------------------------------
(* The useFlows hook, and the App component that wires it to the history   *)
(* hook in runCommand.  A target is modelled by its key.                   *)

\* `task:${taskId}` for the task ids of the model
flowTargetKeyForTask(taskId) ==
    CASE taskId = "T-101" -> "task:T-101"
      [] taskId = "T-102" -> "task:T-102"
      [] OTHER -> "task:"

\* what a render of the component closes over
RenderFlows == [flowLibrary |-> flowLibrary, flowBindings |-> flowBindings,
                selectedFlowTarget |-> selectedFlowTarget]

getFlowBindingsForTarget(c, targetKey) ==
    IF targetKey \in DOMAIN c.flowBindings THEN c.flowBindings[targetKey]
    ELSE <<>>

\* prev.findIndex((f) => f.id === id), 1-based; 0 when there is none
FindIndex(prev, id) ==
    IF \E i \in DOMAIN prev : prev[i].id = id
    THEN CHOOSE i \in DOMAIN prev :
            /\ prev[i].id = id
            /\ \A j \in 1 .. (i - 1) : prev[j].id # id
    ELSE 0

saveFlow(prev, flowDef) ==
    IF FindIndex(prev, flowDef.id) # 0
    THEN [prev EXCEPT ![FindIndex(prev, flowDef.id)] = flowDef]
    ELSE Append(prev, flowDef)

\* attachFlow(flowId, eventType) on the bindings prev, with the id drawn
attachFlow(prev, c, flowId, eventType, bindingId) ==
    IF Falsy(c.selectedFlowTarget) THEN prev
    ELSE (c.selectedFlowTarget :>
            Append(getFlowBindingsForTarget([flowBindings |-> prev],
                                            c.selectedFlowTarget),
                   [id |-> bindingId, flowId |-> flowId, eventType |-> eventType]))
         @@ prev

\* detachFlow that leaves the emptied list under the target's key
detachFlow_keepsKey(prev, c, bindingId) ==
    IF Falsy(c.selectedFlowTarget) THEN prev
    ELSE (c.selectedFlowTarget :>
            SelectSeq(getFlowBindingsForTarget([flowBindings |-> prev],
                                               c.selectedFlowTarget),
                      LAMBDA b : b.id # bindingId))
         @@ prev

\* detachFlow(bindingId) on the bindings prev
detachFlow(prev, c, bindingId) ==
    IF Falsy(c.selectedFlowTarget) THEN prev
    ELSE LET arr == getFlowBindingsForTarget([flowBindings |-> prev],
                                             c.selectedFlowTarget)
             filtered == SelectSeq(arr, LAMBDA b : b.id # bindingId)
         IN  IF Len(filtered) = 0
             THEN [key \in DOMAIN prev \ {c.selectedFlowTarget} |-> prev[key]]
             ELSE (c.selectedFlowTarget :> filtered) @@ prev

\* safePayload.targetKey || (safePayload.taskId ? flowTargetKeyForTask(...) : null)
targetKeyOf(safePayload) ==
    IF ~Falsy(Member(safePayload, <<"targetKey">>))
    THEN Member(safePayload, <<"targetKey">>)
    ELSE IF ~Falsy(Member(safePayload, <<"taskId">>))
         THEN flowTargetKeyForTask(Member(safePayload, <<"taskId">>))
         ELSE JsNull

\* fireFlowsForEvent without the test of binding.eventType
fireFlowsForEvent_anyEvent(c, eventType, payload, executionCallback) ==
    LET safePayload == (<<"eventType">> :> eventType) @@ payload
        bindings == getFlowBindingsForTarget(c, targetKeyOf(safePayload))
        found == SelectSeq(bindings,
                    LAMBDA binding : FindIndex(c.flowLibrary, binding.flowId) # 0)
        flows == [k \in DOMAIN found |->
                    c.flowLibrary[FindIndex(c.flowLibrary, found[k].flowId)]]
    IN  IF Falsy(eventType) \/ targetKeyOf(safePayload) = JsNull
        THEN [payload |-> safePayload, invoked |-> <<>>, wouldExecute |-> <<>>]
        ELSE [payload |-> safePayload,
              invoked |-> IF executionCallback.isFunction THEN flows ELSE <<>>,
              wouldExecute |-> IF executionCallback.isFunction THEN <<>> ELSE flows]

\* fireFlowsForEvent that leaves the forEach at the first binding whose flow
\* is not in the library
fireFlowsForEvent_stopsAtMissing(c, eventType, payload, executionCallback) ==
    LET safePayload == (<<"eventType">> :> eventType) @@ payload
        bindings == SelectSeq(getFlowBindingsForTarget(c, targetKeyOf(safePayload)),
                    LAMBDA binding : ~(~Falsy(binding.eventType)
                                         /\ binding.eventType # eventType))
        missing == {k \in DOMAIN bindings :
                        FindIndex(c.flowLibrary, bindings[k].flowId) = 0}
        found == IF missing = {} THEN bindings
                 ELSE SubSeq(bindings, 1,
                             (CHOOSE k \in missing : \A j \in missing : k <= j) - 1)
        flows == [k \in DOMAIN found |->
                    c.flowLibrary[FindIndex(c.flowLibrary, found[k].flowId)]]
    IN  IF Falsy(eventType) \/ targetKeyOf(safePayload) = JsNull
        THEN [payload |-> safePayload, invoked |-> <<>>, wouldExecute |-> <<>>]
        ELSE [payload |-> safePayload,
              invoked |-> IF executionCallback.isFunction THEN flows ELSE <<>>,
              wouldExecute |-> IF executionCallback.isFunction THEN <<>> ELSE flows]

\* what is handed as executionCallback: a function, or something else
\* fireFlowsForEvent: the payload it built, the flows it handed to the
\* callback and the flows it only logged, in the order of the bindings
fireFlowsForEvent(c, eventType, payload, executionCallback) ==
    LET safePayload == (<<"eventType">> :> eventType) @@ payload
        targetKey == targetKeyOf(safePayload)
        bindings == getFlowBindingsForTarget(c, targetKey)
        found == SelectSeq(bindings,
                    LAMBDA binding :
                        /\ ~(~Falsy(binding.eventType)
                               /\ binding.eventType # eventType)
                        /\ FindIndex(c.flowLibrary, binding.flowId) # 0)
        flows == [k \in DOMAIN found |->
                    c.flowLibrary[FindIndex(c.flowLibrary, found[k].flowId)]]
    IN  IF Falsy(eventType) \/ targetKey = JsNull
        THEN [payload |-> safePayload, invoked |-> <<>>, wouldExecute |-> <<>>]
        ELSE [payload |-> safePayload,
              invoked |-> IF executionCallback.isFunction THEN flows ELSE <<>>,
              wouldExecute |-> IF executionCallback.isFunction THEN <<>> ELSE flows]

\* The third argument App's runCommand hands to fireFlowsForEvent: the
\* object { runCommand, currentSnapshot, addAiSystemMessage }
AppContextObject == [isFunction |-> FALSE]

\* The flows the editor saves: a new one, and a seeded one switched off
DoneLogFlow ==
    [id |-> "flow-done-log", enabled |-> TRUE, sendToBackend |-> TRUE,
     conditions |-> <<DoneOnly>>,
     actions |-> <<[type |-> "log_message",
                    config |-> Config(<<Token(<<"taskId">>), Text(" done")>>)]>>]

EditorFlows == {DoneLogFlow, [INITIAL_FLOW_LIBRARY[1] EXCEPT !.enabled = FALSE]}

Targets == {"task:T-101", "task:T-102"}

EventTypes == {"task.dropped", "workspace.committed"}

MoveCommands ==
    {[type |-> "MoveTask", taskId |-> "T-101", fromStatus |-> "Backlog",
      toStatus |-> toStatus, label |-> label] :
        <<toStatus, label>> \in {<<"Done", "Move T-101 to Done">>,
                                 <<"In Progress", "Move T-101 to In Progress">>}}

\* FlowEditor onSave
SaveFlow ==
    \E flowDef \in EditorFlows :
        /\ flowLibrary' = saveFlow(flowLibrary, flowDef)
        /\ UNCHANGED <<historyVars, engineVars, probe, flowBindings,
                       selectedFlowTarget, bindingsMade, flowMode, lastFire>>

ToggleFlowMode ==
    /\ flowMode' = ~flowMode
    /\ selectedFlowTarget' = IF flowMode THEN JsNull ELSE selectedFlowTarget
    /\ UNCHANGED <<historyVars, engineVars, probe, flowLibrary, flowBindings,
                   bindingsMade, lastFire>>

\* App's handleFlowTargetClick
FlowTargetClick ==
    \E target \in Targets :
        /\ selectedFlowTarget' = IF flowMode THEN target ELSE selectedFlowTarget
        /\ UNCHANGED <<historyVars, engineVars, probe, flowLibrary, flowBindings,
                       bindingsMade, flowMode, lastFire>>

\* FlowPanel onAttachFlow
AttachFlow ==
    \E i \in DOMAIN flowLibrary, eventType \in EventTypes :
        /\ bindingsMade < MaxBindings
        /\ bindingsMade' = bindingsMade + 1
        /\ flowBindings' = attachFlow(flowBindings, RenderFlows, flowLibrary[i].id,
                                      eventType, bindingsMade + 1)
        /\ UNCHANGED <<historyVars, engineVars, probe, flowLibrary,
                       selectedFlowTarget, flowMode, lastFire>>

\* runCommand({ type: 'MoveTask', ... }): applyChange, then
\* fireFlowsForEvent with the context object in the callback's place.  The
\* object is never called, and nothing else in App calls executeFlow.
RunMoveTask ==
    \E cmd \in MoveCommands, now \in Times :
        LET fired == fireFlowsForEvent(RenderFlows, "task.dropped",
                        Object([eventType |-> "task.dropped",
                                taskId |-> cmd.taskId,
                                fromStatus |-> cmd.fromStatus,
                                toStatus |-> cmd.toStatus,
                                timestamp |-> now]),
                        AppContextObject)
        IN  /\ Len(history) < MaxHist \/ currentIndex < Len(history) - 1
            /\ ApplyChangeStep([label |-> cmd.label, kind |-> "MoveTask",
                                value |-> cmd.toStatus], now)
            /\ lastFire' = [n |-> lastFire.n + 1, eventType |-> "task.dropped",
                            payload |-> fired.payload, invoked |-> fired.invoked,
                            wouldExecute |-> fired.wouldExecute]
            /\ UNCHANGED <<engineVars, probe, flowLibrary, flowBindings,
                           selectedFlowTarget, bindingsMade, flowMode>>

NextApp == SaveFlow \/ ToggleFlowMode \/ FlowTargetClick \/ AttachFlow
           \/ RunMoveTask

SpecApp == Init /\ [][NextApp]_vars

----------------------------------------------------------------------------
(* App's runCommand, and the flow engine called with the context App       *)
(* builds: the dispatcher in it is the runCommand of the render that built *)
(* it, so every command a flow forwards is handled with the values that    *)
(* render closed over.                                                     *)

\* runCommand that takes the type in either case, and knows Commit only
runCommand_anyCase(S, c, cmd, now) ==
    IF cmd.type \in {"Commit", "commit"}
    THEN [state |-> commit(S, c),
          fired |-> <<[eventType |-> "workspace.committed",
                       payload |-> Object([eventType |-> "workspace.committed",
                                           timestamp |-> now])]>>,
          threw |-> FALSE]
    ELSE [state |-> S, fired |-> <<>>, threw |-> FALSE]

\* runCommand(cmd) on the history state S with the render closure c: the
\* state it leaves, the event it fires if any, and whether it threw
runCommand(S, c, cmd, now) ==
    IF Falsy(cmd.type)
    THEN [state |-> S, fired |-> <<>>, threw |-> FALSE]
    ELSE CASE cmd.type \in ChangingCommands /\ c.currentSnapshot = Undefined ->
                [state |-> S, fired |-> <<>>, threw |-> TRUE]
           [] cmd.type = "MoveTask" /\ c.currentSnapshot # Undefined ->
                [state |-> applyChange(S, c, cmd.label,
                                       [kind |-> "MoveTask", value |-> cmd.toStatus],
                                       now),
                 fired |-> <<[eventType |-> "task.dropped",
                              payload |-> Object([eventType |-> "task.dropped",
                                                  taskId |-> cmd.taskId,
                                                  fromStatus |-> cmd.fromStatus,
                                                  toStatus |-> cmd.toStatus,
                                                  timestamp |-> now])]>>,
                 threw |-> FALSE]
           [] cmd.type = "UpdateTaskField" /\ c.currentSnapshot # Undefined ->
                [state |-> applyChange(S, c, cmd.label,
                                       [kind |-> "UpdateTaskField",
                                        value |-> cmd.value],
                                       now),
                 fired |-> <<>>, threw |-> FALSE]
           [] cmd.type = "Commit" ->
                [state |-> commit(S, c),
                 fired |-> <<[eventType |-> "workspace.committed",
                              payload |-> Object([eventType |-> "workspace.committed",
                                                  timestamp |-> now])]>>,
                 threw |-> FALSE]
           [] OTHER -> [state |-> S, fired |-> <<>>, threw |-> FALSE]

\* the command object an action of the model forwards: run_command builds
\* { type: commandType, ...params }, update_field an UpdateTaskField
CommandOf(type) ==
    [type |-> type, taskId |-> "T-101", field |-> "status", value |-> "Done",
     label |-> "Update T-101 status"]

\* context.runCommand(command) for every command forwarded, all of them
\* through the runCommand of the one render c
RECURSIVE Dispatch(_, _, _, _)
Dispatch(S, c, commands, now) ==
    IF commands = <<>> THEN S
    ELSE Dispatch(runCommand(S, c, CommandOf(Head(commands)), now).state,
                  c, Tail(commands), now)

UpdateTaskAction ==
    [type |-> "update_field",
     config |-> [Config(NotAString) EXCEPT !.targetType = "task"]]

RunUpdateAction ==
    [type |-> "run_command",
     config |-> [Config(NotAString) EXCEPT !.commandType = "UpdateTaskField"]]

DispatchFlows ==
    {PlainFlow,
     [PlainFlow EXCEPT !.id = "flow-update", !.actions = <<UpdateTaskAction>>],
     [PlainFlow EXCEPT !.id = "flow-command", !.actions = <<RunUpdateAction>>],
     [PlainFlow EXCEPT !.id = "flow-follow-up",
        !.actions = <<RunUpdateAction, UpdateTaskAction>>],
     [PlainFlow EXCEPT !.id = "flow-untyped",
        !.actions = <<RunCommandAction, UpdateFieldAction>>],
     [PlainFlow EXCEPT !.id = "flow-null-config",
        !.actions = <<[type |-> "run_command", config |-> NullConfig],
                      [type |-> "update_field", config |-> NullConfig]>>]}

\* executeFlow(flow, payload, { runCommand, currentSnapshot, ... }) with the
\* dispatcher wired or left out
ExecuteWithContext ==
    \E flow \in DispatchFlows, wired \in BOOLEAN, now \in Times :
        LET c == Render(State)
            env == [eventPayload |-> DoneEvent,
                    context |-> [runCommand |-> wired,
                                 currentSnapshot |-> SnapshotObject,
                                 runCommandThrows |-> c.currentSnapshot = Undefined],
                    sink |-> "absent"]
            call == executeFlow(flowExecutionHistory, flow, env.eventPayload,
                                env.context, env.sink, executions + 1)
        IN  /\ executions < MaxRuns
            /\ Becomes(Dispatch(State, c, call.commands, now))
            /\ lastCall' = [op |-> "executeFlow", outcome |-> "done"]
            /\ executions' = executions + 1
            /\ flowExecutionHistory' = call.list
            /\ lastResult' = call.result
            /\ lastRun' = [flow |-> flow, env |-> env, trace |-> call.trace,
                           relayed |-> call.relayed, threw |-> call.threw]
            /\ UNCHANGED <<irregular, probe, useFlowsVars>>

NextDispatch == ExecuteWithContext \/ CallUndo \/ CallRedo

SpecDispatch == Init /\ [][NextDispatch]_vars

----------------------------------------------------------------------------
(* Commands handed to App's runCommand: of the types the switch knows, the *)
(* model follows MoveTask, UpdateTaskField and Commit; the other commands  *)
(* have a type the switch does not know, or none.                          *)

\* the cases of the switch in runCommand
RecognizedTypes ==
    {"SetView", "CreateTask", "MoveTask", "UpdateTaskField", "UpdateBrief",
     "LockBrief", "UnlockBrief", "GenerateTasksFromBrief", "UpdateTimeline",
     "CreateDoc", "Commit"}

UnknownCommands ==
    {[type |-> "DeleteTask"], [type |-> "commit"], [type |-> ""],
     [type |-> JsUndefined]}

Commands == MoveCommands \cup {[type |-> "Commit"]} \cup UnknownCommands

\* runCommand(cmd) called from an event handler of App: the history hook,
\* then fireFlowsForEvent with the context object in the callback's place
RunCommandOf(commands) ==
    \E cmd \in commands, now \in Times :
        LET c == Render(State)
            ran == runCommand(State, c, cmd, now)
            fired == fireFlowsForEvent(RenderFlows, ran.fired[1].eventType,
                                       ran.fired[1].payload, AppContextObject)
        IN  /\ cmd.type \in ChangingCommands =>
                  Len(history) < MaxHist \/ currentIndex < Len(history) - 1
            /\ (cmd.type = "Commit" /\ currentIndex < Len(history)) =>
                  heap[history[currentIndex + 1]].label.marks < MaxMarks
            /\ Becomes(ran.state)
            /\ lastCall' = [op |-> "runCommand",
                            outcome |-> IF ran.threw THEN "raised" ELSE "done",
                            cmd |-> cmd]
            /\ lastFire' = IF ran.fired = <<>> THEN lastFire
                           ELSE [n |-> lastFire.n + 1,
                                 eventType |-> ran.fired[1].eventType,
                                 payload |-> fired.payload,
                                 invoked |-> fired.invoked,
                                 wouldExecute |-> fired.wouldExecute]
            /\ UNCHANGED <<engineVars, probe, flowLibrary, flowBindings,
                           selectedFlowTarget, bindingsMade, flowMode>>

RunCommand == RunCommandOf(Commands)

NextCommands == RunCommand

SpecCommands == Init /\ [][NextCommands]_vars

\* Flows bound to targets in flow mode, and the Commit command
RunCommit == RunCommandOf({[type |-> "Commit"]})

NextCommit == ToggleFlowMode \/ FlowTargetClick \/ AttachFlow \/ RunCommit

SpecCommit == Init /\ [][NextCommit]_vars

----------------------------------------------------------------------------
(* The useFlows hook used as its interface allows: any target is clicked,  *)
(* a flow is attached by any id for an event type or for none, a binding   *)
(* is detached, and an event is fired with a function as the execution     *)
(* callback.                                                               *)

\* the flow ids attachFlow is given: two of the library, one of no flow
AttachableFlowIds ==
    {INITIAL_FLOW_LIBRARY[1].id, INITIAL_FLOW_LIBRARY[3].id, "flow-deleted"}

\* the eventType attachFlow is given: a type, or null for any
BindingEventTypes == {"task.dropped", JsNull}

\* the payloads fireFlowsForEvent is given: a task id, a target key next to
\* a task id, an empty target key next to a task id, and neither
EventPayloads ==
    {Object([taskId |-> "T-101"]),
     Object([targetKey |-> "task:T-102", taskId |-> "T-101"]),
     Object([targetKey |-> "", taskId |-> "T-102"]),
     Object([timestamp |-> "t1"])}

\* executionCallback: a function that takes (flow, safePayload)
ExecutionCallback == [isFunction |-> TRUE]

\* the hook's handleFlowTargetClick(target)
HandleFlowTargetClick ==
    \E target \in Targets \cup {JsNull} :
        /\ selectedFlowTarget' = IF Falsy(target) THEN selectedFlowTarget ELSE target
        /\ UNCHANGED <<historyVars, engineVars, probe, flowLibrary, flowBindings,
                       bindingsMade, flowMode, lastFire>>

CallAttachFlow ==
    \E flowId \in AttachableFlowIds, eventType \in BindingEventTypes :
        /\ bindingsMade < MaxBindings
        /\ bindingsMade' = bindingsMade + 1
        /\ flowBindings' = attachFlow(flowBindings, RenderFlows, flowId,
                                      eventType, bindingsMade + 1)
        /\ UNCHANGED <<historyVars, engineVars, probe, flowLibrary,
                       selectedFlowTarget, flowMode, lastFire>>

CallDetachFlow ==
    \E bindingId \in 1 .. MaxBindings :
        /\ flowBindings' = detachFlow(flowBindings, RenderFlows, bindingId)
        /\ UNCHANGED <<historyVars, engineVars, probe, flowLibrary,
                       selectedFlowTarget, bindingsMade, flowMode, lastFire>>

CallFireFlowsForEvent ==
    \E eventType \in EventTypes, payload \in EventPayloads :
        LET fired == fireFlowsForEvent(RenderFlows, eventType, payload,
                                       ExecutionCallback)
        IN  /\ lastFire' = [n |-> 1, eventType |-> eventType,
                            payload |-> fired.payload, invoked |-> fired.invoked,
                            wouldExecute |-> fired.wouldExecute]
            /\ UNCHANGED <<historyVars, engineVars, probe, flowLibrary,
                           flowBindings, selectedFlowTarget, bindingsMade,
                           flowMode>>

NextHook == HandleFlowTargetClick \/ CallAttachFlow \/ CallDetachFlow
            \/ CallFireFlowsForEvent

SpecHook == Init /\ [][NextHook]_vars

----------------------------------------------------------------------------
(* What an observer reads at 0-based index i of a history list: the        *)
(* snapshot with its tasks array followed.                                 *)

SnapshotAt(h, hist, i) ==
    [h[hist[i + 1]] EXCEPT !.tasks = h[h[hist[i + 1]].tasks]]

Indices(hist) == 0 .. (Len(hist) - 1)

StateNext == [heap |-> heap', history |-> history',
              currentIndex |-> currentIndex', commitIndex |-> commitIndex']

----------------------------------------------------------------------------
C2_CommitMonotonic ==
    [][/\ commitIndex' >= commitIndex
       /\ currentIndex' >= commitIndex'
       /\ currentIndex' >= commitIndex]_vars

C2_Witness ==
    /\ lastCall = [op |-> "undo", outcome |-> "ignored"]
    /\ commitIndex = 1
    /\ currentIndex = 1

(* C3: directly after an applyChange that went through, currentIndex is    *)
(* the last index, the list is the old list cut after the old currentIndex *)
(* plus one entry, and redo() changes nothing.                             *)
C3_RedoBranchTruncated ==
    [][(lastCall'.op = "applyChange" /\ lastCall'.outcome = "done") =>
          /\ currentIndex' = Len(history') - 1
          /\ Len(history') = currentIndex + 2
          /\ \A i \in 0 .. currentIndex :
                SnapshotAt(heap', history', i) = SnapshotAt(heap, history, i)
          /\ redo(StateNext, Render(StateNext)) = StateNext]_vars

\* the new snapshot's id is the length before the call, so an id above the
\* index shows that a redo branch was cut
C3_Witness ==
    /\ lastCall = [op |-> "applyChange", outcome |-> "done"]
    /\ SnapshotAt(heap, history, currentIndex).id > currentIndex
    /\ currentIndex = Len(history) - 1

(* C4: an applyChange whose mutator does not raise appends exactly one     *)
(* snapshot at oldCurrentIndex+1 (the mutator applied to a copy of the     *)
(* pre-call current snapshot, then stamped), moves currentIndex there and  *)
(* leaves commitIndex and every snapshot up to oldCurrentIndex unchanged.  *)
C4_Expected(change, now) ==
    [SnapshotAt(heap, history, currentIndex) EXCEPT
        !.tasks.status = change.value,
        !.id = Len(history),
        !.label = [base |-> change.label, marks |-> 0],
        !.timestamp = now]

C4_ApplyChangeFrame ==
    [][(lastCall'.op = "applyChange" /\ lastCall'.outcome = "done") =>
          /\ Len(history') = currentIndex + 2
          /\ currentIndex' = currentIndex + 1
          /\ commitIndex' = commitIndex
          /\ \A i \in 0 .. currentIndex :
                SnapshotAt(heap', history', i) = SnapshotAt(heap, history, i)
          /\ \E change \in Changes, now \in Times :
                /\ ~raises(change)
                /\ SnapshotAt(heap', history', currentIndex + 1)
                      = C4_Expected(change, now)]_vars

\* the mutator changed the task's status in the copy only
C4_Witness ==
    /\ lastCall = [op |-> "applyChange", outcome |-> "done"]
    /\ currentIndex = 1
    /\ SnapshotAt(heap, history, 0).tasks.status = "Backlog"
    /\ SnapshotAt(heap, history, 1).tasks.status = "Done"

(* C5: when the mutator raises, the snapshot list, currentIndex and        *)
(* commitIndex are exactly what they were before the call.                 *)
C5_RaiseIsAtomic ==
    [][(lastCall'.op = "applyChange" /\ lastCall'.outcome = "raised") =>
          /\ Len(history') = Len(history)
          /\ \A i \in Indices(history) :
                SnapshotAt(heap', history', i) = SnapshotAt(heap, history, i)
          /\ currentIndex' = currentIndex
          /\ commitIndex' = commitIndex]_vars

C5_Witness ==
    /\ lastCall = [op |-> "applyChange", outcome |-> "raised"]
    /\ Len(history) = 2
    /\ currentIndex = 0
    /\ SnapshotAt(heap, history, 0).tasks.status = "Backlog"

(* C6: undo() lowers currentIndex by exactly 1 when currentIndex >         *)
(* commitIndex and changes nothing otherwise; redo() raises it by exactly  *)
(* 1 when currentIndex < snapshots.length-1 and changes nothing otherwise; *)
(* neither changes the snapshot list or commitIndex.                       *)
C6_UndoRedoStep ==
    [][/\ lastCall'.op = "undo" =>
            /\ currentIndex' = IF currentIndex > commitIndex
                               THEN currentIndex - 1 ELSE currentIndex
            /\ UNCHANGED <<heap, history, commitIndex>>
       /\ lastCall'.op = "redo" =>
            /\ currentIndex' = IF currentIndex < Len(history) - 1
                               THEN currentIndex + 1 ELSE currentIndex
            /\ UNCHANGED <<heap, history, commitIndex>>]_vars

C6_Witness ==
    /\ lastCall = [op |-> "redo", outcome |-> "done"]
    /\ currentIndex = 1
    /\ Len(history) = 3
    /\ commitIndex = 0

(* C7: commit() sets commitIndex to currentIndex and marks                 *)
(* snapshots[currentIndex] committed, leaving currentIndex, the list       *)
(* length and every other snapshot unchanged; no other operation changes   *)
(* commitIndex; directly after commit, undo() changes nothing.             *)
C7_CommitFrame ==
    [][/\ lastCall'.op = "commit" =>
            /\ commitIndex' = currentIndex
            /\ SnapshotAt(heap', history', currentIndex).committed = TRUE
            /\ currentIndex' = currentIndex
            /\ Len(history') = Len(history)
            /\ \A i \in Indices(history) \ {currentIndex} :
                  SnapshotAt(heap', history', i) = SnapshotAt(heap, history, i)
            /\ undo(StateNext, Render(StateNext)) = StateNext
       /\ lastCall'.op # "commit" => commitIndex' = commitIndex]_vars

C7_Witness ==
    /\ lastCall = [op |-> "commit", outcome |-> "done"]
    /\ commitIndex = 1
    /\ Len(history) = 3
    /\ SnapshotAt(heap, history, 1).committed
    /\ ~SnapshotAt(heap, history, 0).committed

(* C8: jump(index) sets currentIndex to index exactly when commitIndex <=  *)
(* index <= snapshots.length-1; for any other index the whole history      *)
(* state is left unchanged.                                                *)
C8_JumpBounded ==
    [][\A index \in JumpTargets :
          JumpStep(index) =>
             /\ currentIndex' = IF commitIndex <= index /\ index <= Len(history) - 1
                                THEN index ELSE currentIndex
             /\ UNCHANGED <<heap, history, commitIndex>>]_vars

\* a jump below the commit baseline was ignored
C8_Witness ==
    /\ lastCall = [op |-> "jump", outcome |-> "ignored"]
    /\ commitIndex = 2
    /\ currentIndex = 2

(* C9: a write through the object handed out as currentSnapshot, outside   *)
(* a mutator, changes no snapshot stored in the history list; and no two   *)
(* indices of the list share a snapshot object or a tasks array.           *)
C9_NoSharedStructure ==
    \A i, j \in Indices(history) :
        i # j => /\ history[i + 1] # history[j + 1]
                 /\ heap[history[i + 1]].tasks # heap[history[j + 1]].tasks

C9_SnapshotIsolation ==
    [][/\ lastCall'.op = "write" =>
            \A i \in Indices(history) :
                SnapshotAt(heap', history', i) = SnapshotAt(heap, history, i)
       /\ C9_NoSharedStructure']_vars

(* C10: after any sequence of executeFlow calls the execution log holds at *)
(* most 100 records, most recent first, the oldest evicted first; after    *)
(* 105 calls that each add a record it holds exactly the 100 most recent.  *)
\* what a consumer that asks for every record gets
C10_Records == getExecutionHistory(flowExecutionHistory, MaxExecutions)

C10_LogBounded ==
    /\ Len(C10_Records) <= LogCapacity
    /\ \A i \in 1 .. (Len(C10_Records) - 1) :
          C10_Records[i].id > C10_Records[i + 1].id
    /\ (executions = MaxExecutions /\ irregular = 0) =>
          /\ Len(C10_Records) = LogCapacity
          /\ \A i \in 1 .. LogCapacity :
                C10_Records[i].id = MaxExecutions + 1 - i

----------------------------------------------------------------------------
(* What the claims about executeFlow read off a step that is a call of it *)

IsCall == executions' = executions + 1

Statuses == {"skipped", "completed", "completed_with_errors", "failed"}

\* the call put exactly one record, its own, in front of the log
AddsOneRecord ==
    /\ Len(flowExecutionHistory') >= 1
    /\ flowExecutionHistory'
          = Slice(Unshift(flowExecutionHistory, flowExecutionHistory'[1]),
                  Len(flowExecutionHistory'))
    /\ Len(flowExecutionHistory') >= Min(Len(flowExecutionHistory) + 1, LogCapacity)
    /\ flowExecutionHistory'[1].id = executions'
    /\ flowExecutionHistory'[1].flowId = lastRun'.flow.id

AttemptedActions == {k \in DOMAIN lastRun'.trace : lastRun'.trace[k].step = "action"}

(* C11: every executeFlow call on a present, enabled flow adds exactly one *)
(* Execution Record whatever its outcome (skipped, completed,              *)
(* completed_with_errors, failed); a call with a missing flow or with      *)
(* enabled false adds no record, runs no action and returns success false  *)
(* with the reason the source gives it.                                    *)
C11_Step(reason) ==
    IsCall =>
       IF lastRun'.flow # NoFlow /\ lastRun'.flow.enabled
       THEN /\ AddsOneRecord
            /\ flowExecutionHistory'[1].status \in Statuses
       ELSE /\ flowExecutionHistory' = flowExecutionHistory
            /\ AttemptedActions = {}
            /\ ~lastRun'.relayed
            /\ lastResult'.success = FALSE
            /\ lastResult'.reason = reason

\* as claimed: the reason is "disabled_or_not_found"
C11_AsClaimed == [][C11_Step("disabled_or_not_found")]_vars

C11_OneRecordPerEnabledCall == [][C11_Step("Flow disabled or not found")]_vars

\* a failed call left its record, and the call on the disabled flow after
\* it left none
C11_Witness ==
    /\ executions = 2
    /\ lastRun.flow.id = "flow-disabled"
    /\ lastResult.reason = "Flow disabled or not found"
    /\ Len(flowExecutionHistory) = 1
    /\ flowExecutionHistory[1].status = "failed"

\* the flow and the environment the call was made with
CallFlow == lastRun'.flow
CallEnv  == lastRun'.env
Enabled(flow) == flow # NoFlow /\ flow.enabled

\* some condition of the flow is false and every one before it is true
ConditionsUnmet(flow, env) ==
    \E k \in DOMAIN flow.conditions :
        /\ evaluateCondition(flow.conditions[k], env.eventPayload, env.context)
              = "false"
        /\ \A j \in 1 .. (k - 1) :
              evaluateCondition(flow.conditions[j], env.eventPayload, env.context)
                = "true"

(* C12: a call whose non-empty condition list evaluates false executes     *)
(* none of the flow's actions, performs no backend relay, appends exactly  *)
(* one record with status skipped, and returns success false with the      *)
(* reason the source gives it.                                             *)
C12_Step(reason) ==
    (IsCall /\ Enabled(CallFlow) /\ ConditionsUnmet(CallFlow, CallEnv)) =>
        /\ AttemptedActions = {}
        /\ ~lastRun'.relayed
        /\ AddsOneRecord
        /\ flowExecutionHistory'[1].status = "skipped"
        /\ flowExecutionHistory'[1].actionsPerformed = <<>>
        /\ lastResult'.success = FALSE
        /\ lastResult'.reason = reason

\* as claimed: the reason is "conditions_not_met"
C12_AsClaimed == [][C12_Step("conditions_not_met")]_vars

C12_SkippedWhenUnmet == [][C12_Step("Conditions not met")]_vars

\* a flow that relays and has actions was skipped on an event that is not
\* a move to Done, after an earlier call
C12_Witness ==
    /\ executions = 2
    /\ lastRun.flow.id = "flow-done-relay"
    /\ lastRun.env.eventPayload = DroppedEvent
    /\ lastRun.trace = <<>>
    /\ Len(flowExecutionHistory) = 2
    /\ flowExecutionHistory[1].status = "skipped"

\* every condition of the flow is true
ConditionsMet(flow, env) ==
    \A k \in DOMAIN flow.conditions :
        evaluateCondition(flow.conditions[k], env.eventPayload, env.context) = "true"

\* the 0-based indices of the actions that throw, and of those that return
\* { success: false }
Throwing(flow, env) ==
    {k - 1 : k \in {j \in DOMAIN flow.actions :
                       executeAction(flow.actions[j], env.eventPayload,
                                     env.context).threw}}

SoftFailing(flow, env) ==
    {k - 1 : k \in {j \in DOMAIN flow.actions :
                       LET result == executeAction(flow.actions[j],
                                                   env.eventPayload, env.context)
                       IN  ~result.threw /\ ~result.success}}

\* every action of the flow was attempted, in array order
AllAttemptedInOrder ==
    /\ Cardinality(AttemptedActions) = Len(CallFlow.actions)
    /\ \A k \in 1 .. Len(CallFlow.actions) :
          lastRun'.trace[k] = [step |-> "action", index |-> k - 1]

(* C13: for a flow with n actions of which exactly the one at index i      *)
(* throws, executeFlow still attempts every action in array order, returns *)
(* errors of length 1 carrying index i, records status                     *)
(* completed_with_errors, and returns as actionsPerformed n less the       *)
(* number given.                                                           *)
C13_Step(uncounted) ==
    (IsCall /\ Enabled(CallFlow) /\ ConditionsMet(CallFlow, CallEnv)) =>
        \A i \in Throwing(CallFlow, CallEnv) :
            Throwing(CallFlow, CallEnv) = {i} =>
                /\ AllAttemptedInOrder
                /\ lastResult'.actionsPerformed = Len(CallFlow.actions) - uncounted
                /\ Len(lastResult'.errors) = 1
                /\ lastResult'.errors[1].actionIndex = i
                /\ flowExecutionHistory'[1].errors = lastResult'.errors
                /\ flowExecutionHistory'[1].status = "completed_with_errors"
                /\ lastResult'.success = FALSE

\* as claimed: actionsPerformed is n, every action attempted
C13_AsClaimed == [][C13_Step(0)]_vars

\* actionsPerformed is the number of actions that returned
C13_PartialFailure == [][C13_Step(1)]_vars

\* the last of three actions threw after the other two had run
C13_Witness ==
    /\ executions = 2
    /\ lastRun.flow = ThrowsAt(2)
    /\ Len(lastRun.trace) = 4
    /\ lastResult.actionsPerformed = 2
    /\ lastResult.errors = <<[actionIndex |-> 2, error |-> "TypeError"]>>
    /\ flowExecutionHistory[1].status = "completed_with_errors"

(* C14: an action that returns { success: false } without throwing (an     *)
(* unknown type, run_command with no dispatcher, update_field on an        *)
(* unsupported target) is captured in the record's errors with its index,  *)
(* the remaining actions still run, and the record's status is             *)
(* completed_with_errors rather than completed.                            *)
C14_SoftFailureRecorded ==
    [][(IsCall /\ Enabled(CallFlow) /\ ConditionsMet(CallFlow, CallEnv)) =>
          \A i \in SoftFailing(CallFlow, CallEnv) :
              /\ \E k \in DOMAIN flowExecutionHistory'[1].errors :
                    flowExecutionHistory'[1].errors[k].actionIndex = i
              /\ AllAttemptedInOrder
              /\ flowExecutionHistory'[1].status = "completed_with_errors"]_vars

\* evaluating the conditions throws: some condition does, and every one
\* before it is true
ConditionsThrow(flow, env) ==
    \E k \in DOMAIN flow.conditions :
        /\ evaluateCondition(flow.conditions[k], env.eventPayload, env.context)
              = "throws"
        /\ \A j \in 1 .. (k - 1) :
              evaluateCondition(flow.conditions[j], env.eventPayload, env.context)
                = "true"

RelayedAfterActions ==
    /\ AllAttemptedInOrder
    /\ Len(lastRun'.trace) = Len(CallFlow.actions) + 1
    /\ lastRun'.trace[Len(lastRun'.trace)].step = "relay"

\* a sink that throws leaves the call as it would have been with a sink
\* that accepts the message: it returns, its errors are those of the
\* actions, its status follows from them
RelayErrorSwallowed ==
    (lastRun'.relayed /\ CallEnv.sink = "throws") =>
        /\ ~lastRun'.threw
        /\ {lastResult'.errors[k].actionIndex : k \in DOMAIN lastResult'.errors}
              = Throwing(CallFlow, CallEnv)
        /\ flowExecutionHistory'[1].status
              = IF Throwing(CallFlow, CallEnv) = {}
                THEN "completed" ELSE "completed_with_errors"
        /\ lastResult'
              = executeFlow(flowExecutionHistory, CallFlow, CallEnv.eventPayload,
                            CallEnv.context, "accepts", executions').result

(* C16: the backend relay is attempted exactly when flow.sendToBackend is  *)
(* not false and the call reached the end of its action loop (the flow is  *)
(* present and enabled and its conditions evaluated true), after all       *)
(* actions have been attempted; an exception raised by the relay sink is   *)
(* swallowed: it does not propagate, adds nothing to errors and does not   *)
(* change the final status.                                                *)
C16_Step(reached) ==
    IsCall =>
        /\ lastRun'.relayed = (CallFlow.sendToBackend # FALSE /\ reached)
        /\ lastRun'.relayed => RelayedAfterActions
        /\ ~lastRun'.relayed =>
              \A k \in DOMAIN lastRun'.trace : lastRun'.trace[k].step # "relay"
        /\ RelayErrorSwallowed

\* as claimed: exactly when sendToBackend is not false and the flow, being
\* present and enabled, was not skipped
C16_AsClaimed ==
    [][C16_Step(/\ Enabled(CallFlow)
                /\ flowExecutionHistory'[1].status # "skipped")]_vars

C16_RelayAfterActions ==
    [][C16_Step(Enabled(CallFlow) /\ ConditionsMet(CallFlow, CallEnv))]_vars

\* the sink threw on the message of a flow whose three actions had run,
\* one of them throwing, and the call returned with that one error
C16_Witness ==
    /\ executions = 2
    /\ lastRun.relayed
    /\ lastRun.env.sink = "throws"
    /\ lastRun.flow = ThrowsAt(0)
    /\ lastRun.trace[4].step = "relay"
    /\ ~lastRun.threw
    /\ Len(lastResult.errors) = 1
    /\ flowExecutionHistory[1].status = "completed_with_errors"

----------------------------------------------------------------------------
(* What the claims about evaluateConditions and interpolateVariables read  *)
(* off a probe.                                                            *)

\* payload first: the payload's value unless it is undefined, and only
\* then the snapshot's
PayloadFirst(path) ==
    IF getValueFromPath(ProbePayload, path) # JsUndefined
    THEN getValueFromPath(ProbePayload, path)
    ELSE getValueFromPath(ProbeContext.currentSnapshot, path)

Evaluated == probe.kind = "conditions" /\ probe.stage = "done"

(* C17: for every condition the value compared is the event payload's      *)
(* value at the dotted path whenever that value is anything other than     *)
(* undefined; the snapshot is consulted only when the payload path is      *)
(* undefined or missing.                                                   *)
C17_PayloadFirst ==
    Evaluated =>
        probe.verdict
          = IF \A k \in DOMAIN probe.conditions :
                  compare(probe.conditions[k].operator,
                          PayloadFirst(probe.conditions[k].field),
                          probe.conditions[k].value)
            THEN "true" ELSE "false"

Interpolated == probe.kind = "template" /\ probe.stage = "done"

(* C18: interpolate replaces every {{dotted.path}} token whose path        *)
(* resolves (payload first, snapshot as fallback) to a value by that       *)
(* value's string form, leaves every token that resolves in neither source *)
(* verbatim, and leaves all other text unchanged, so interpolate(s) = s    *)
(* for any string s without tokens.                                        *)
C18_Interpolation ==
    (Interpolated /\ probe.template # NotAString) =>
        /\ DOMAIN probe.text = DOMAIN probe.template
        /\ \A k \in DOMAIN probe.template :
              probe.text[k]
                = IF probe.template[k].token
                     /\ PayloadFirst(probe.template[k].path) # JsUndefined
                  THEN Text(JsString(PayloadFirst(probe.template[k].path)))
                  ELSE probe.template[k]
        /\ (\A k \in DOMAIN probe.template : ~probe.template[k].token)
              => probe.text = probe.template

\* what the k-th condition of the probe is on its own
Single(k) ==
    evaluateCondition(probe.conditions[k], ProbePayload, ProbeContext)

Reversed(list) == [k \in DOMAIN list |-> list[Len(list) + 1 - k]]

----------------------------------------------------------------------------
(* What the end-to-end claim reads off a step in which the App fired an    *)
(* event.                                                                  *)

Fired == lastFire'.n = lastFire.n + 1

\* the flow is in the library, its one binding is the only one of the
\* task, for task.dropped, and the task was moved to Done
DoneScenario ==
    /\ FindIndex(flowLibrary, DoneLogFlow.id) # 0
    /\ flowLibrary[FindIndex(flowLibrary, DoneLogFlow.id)] = DoneLogFlow
    /\ Len(getFlowBindingsForTarget(RenderFlows, "task:T-101")) = 1
    /\ getFlowBindingsForTarget(RenderFlows, "task:T-101")[1].flowId
          = DoneLogFlow.id
    /\ getFlowBindingsForTarget(RenderFlows, "task:T-101")[1].eventType
          = "task.dropped"
    /\ lastFire'.eventType = "task.dropped"
    /\ Member(lastFire'.payload, <<"taskId">>) = "T-101"
    /\ Member(lastFire'.payload, <<"toStatus">>) = "Done"

(* C20: with a flow whose single condition is toStatus equals Done and     *)
(* whose single action is log_message "{{taskId}} done", bound to          *)
(* task:T-101 for task.dropped, moving T-101 to Done fires task.dropped,   *)
(* passes the flow to executeFlow and yields exactly one Execution Record, *)
(* with status completed and one performed log action whose message is     *)
(* "T-101 done".                                                           *)
C20_EndToEnd ==
    [][(Fired /\ DoneScenario) =>
          /\ lastFire'.invoked = <<DoneLogFlow>>
          /\ Len(flowExecutionHistory') = Len(flowExecutionHistory) + 1
          /\ flowExecutionHistory'[1].flowId = DoneLogFlow.id
          /\ flowExecutionHistory'[1].status = "completed"
          /\ Len(flowExecutionHistory'[1].actionsPerformed) = 1
          /\ flowExecutionHistory'[1].actionsPerformed[1].type = "log_message"
          /\ flowExecutionHistory'[1].actionsPerformed[1].message
                = <<Text("T-101"), Text(" done")>>]_vars

----------------------------------------------------------------------------
(* What the claims about the useFlows hook read off a step in which an     *)
(* event was fired: the bindings stored under the event's target key that  *)
(* are for the event's type or for any, and the flows they name.           *)

HookFired == lastFire' # lastFire

Candidates ==
    IF targetKeyOf(lastFire'.payload) = JsNull THEN <<>>
    ELSE SelectSeq(getFlowBindingsForTarget(RenderFlows,
                                            targetKeyOf(lastFire'.payload)),
                   LAMBDA b : b.eventType = lastFire'.eventType
                              \/ b.eventType = JsNull)

InLibrary(binding) == \E i \in DOMAIN flowLibrary : flowLibrary[i].id = binding.flowId

(* C21: the flows executed for an event are exactly those named by the     *)
(* bindings stored under the event's target key (payload.targetKey, else   *)
(* task:<taskId>) whose eventType is the event's type or unset; a binding  *)
(* for another event type or under another target executes nothing, and an *)
(* event with neither targetKey nor taskId executes nothing.               *)
C21_CandidateBindings ==
    [][HookFired =>
          LET executable == SelectSeq(Candidates, InLibrary)
          IN  /\ Len(lastFire'.invoked) = Len(executable)
              /\ \A k \in DOMAIN executable :
                    lastFire'.invoked[k].id = executable[k].flowId
              /\ (Falsy(Member(lastFire'.payload, <<"targetKey">>))
                    /\ Falsy(Member(lastFire'.payload, <<"taskId">>)))
                  => lastFire'.invoked = <<>>
              /\ (\A b \in Range(getFlowBindingsForTarget(RenderFlows,
                                        targetKeyOf(lastFire'.payload))) :
                        b.eventType \notin {JsNull, lastFire'.eventType})
                  => lastFire'.invoked = <<>>]_vars

\* task:T-101 holds a binding for task.dropped and one for any event, and
\* workspace.committed was fired at T-101: only the flow bound for any
\* event was executed
C21_Witness ==
    /\ lastFire.eventType = "workspace.committed"
    /\ targetKeyOf(lastFire.payload) = "task:T-101"
    /\ "task:T-101" \in DOMAIN flowBindings
    /\ Len(flowBindings["task:T-101"]) = 2
    /\ flowBindings["task:T-101"][1].eventType = "task.dropped"
    /\ flowBindings["task:T-101"][1].flowId = INITIAL_FLOW_LIBRARY[1].id
    /\ flowBindings["task:T-101"][2].eventType = JsNull
    /\ flowBindings["task:T-101"][2].flowId = INITIAL_FLOW_LIBRARY[3].id
    /\ lastFire.invoked = <<INITIAL_FLOW_LIBRARY[3]>>

(* C22: a binding whose flowId matches no flow of the library is skipped   *)
(* without ending the call: every other candidate binding of the target    *)
(* still has its flow executed, and the flows are executed in the order in *)
(* which their bindings were inserted.                                     *)
C22_MissingFlowSkipped ==
    [][HookFired =>
          \A k \in DOMAIN Candidates :
              InLibrary(Candidates[k]) =>
                  LET position == Cardinality({j \in 1 .. k : InLibrary(Candidates[j])})
                  IN  /\ position <= Len(lastFire'.invoked)
                      /\ lastFire'.invoked[position].id = Candidates[k].flowId]_vars

\* the first binding of task:T-101 names a flow that is not in the library,
\* the second one a flow that is, and the event executed the second
C22_Witness ==
    /\ lastFire.eventType = "task.dropped"
    /\ targetKeyOf(lastFire.payload) = "task:T-101"
    /\ "task:T-101" \in DOMAIN flowBindings
    /\ Len(flowBindings["task:T-101"]) = 2
    /\ flowBindings["task:T-101"][1].flowId = "flow-deleted"
    /\ flowBindings["task:T-101"][1].eventType = "task.dropped"
    /\ ~InLibrary(flowBindings["task:T-101"][1])
    /\ flowBindings["task:T-101"][2].flowId = INITIAL_FLOW_LIBRARY[1].id
    /\ lastFire.invoked = <<INITIAL_FLOW_LIBRARY[1]>>

----------------------------------------------------------------------------
(* What the claim about attachFlow and detachFlow reads off a step:        *)
(* attachFlow draws a binding id, detachFlow does not.                     *)

Attached == bindingsMade' = bindingsMade + 1

Detached == bindingsMade' = bindingsMade /\ flowBindings' # flowBindings

(* C27: attachFlow appends exactly one binding at the end of the selected  *)
(* target's list; detachFlow(bindingId) removes exactly the binding with   *)
(* that id from the selected target's list and deletes the target's key    *)
(* when the list becomes empty; both leave the lists of all other targets  *)
(* as they were and do nothing when no target is selected.                 *)
C27_AttachDetachFrame ==
    [][LET selected == selectedFlowTarget
           old == getFlowBindingsForTarget(RenderFlows, selected)
       IN  /\ selected = JsNull => flowBindings' = flowBindings
           /\ \A key \in (DOMAIN flowBindings \cup DOMAIN flowBindings') \ {selected} :
                 /\ key \in DOMAIN flowBindings
                 /\ key \in DOMAIN flowBindings'
                 /\ flowBindings'[key] = flowBindings[key]
           /\ (Attached /\ selected # JsNull) =>
                 /\ selected \in DOMAIN flowBindings'
                 /\ Len(flowBindings'[selected]) = Len(old) + 1
                 /\ SubSeq(flowBindings'[selected], 1, Len(old)) = old
                 /\ flowBindings'[selected][Len(old) + 1].id = bindingsMade'
           /\ Detached =>
                 \E bindingId \in 1 .. MaxBindings :
                     LET kept == SelectSeq(old, LAMBDA b : b.id # bindingId)
                     IN  /\ Len(kept) = Len(old) - 1
                         /\ IF Len(kept) = 0
                            THEN selected \notin DOMAIN flowBindings'
                            ELSE /\ selected \in DOMAIN flowBindings'
                                 /\ flowBindings'[selected] = kept]_vars

\* the first binding went to task:T-102 and is still there; the second
\* one was attached after it, hence to a selected target, and is gone: it
\* was detached
C27_Witness ==
    /\ bindingsMade = 2
    /\ selectedFlowTarget = "task:T-101"
    /\ DOMAIN flowBindings = {"task:T-102"}
    /\ Len(flowBindings["task:T-102"]) = 1
    /\ flowBindings["task:T-102"][1].id = 1

----------------------------------------------------------------------------
(* What the claims about the command dispatcher read off a step in which   *)
(* executeFlow was called with the context App builds: the record the call *)
(* left, and the actions of the flow that forward a command when they can. *)

Wired == lastRun'.env.context.runCommand

NewRecord == flowExecutionHistory'[1]

\* update_field with config: null throws before it looks for a dispatcher
Dispatching ==
    {k \in DOMAIN lastRun'.flow.actions :
        \/ lastRun'.flow.actions[k].type = "run_command"
        \/ /\ lastRun'.flow.actions[k].type = "update_field"
           /\ lastRun'.flow.actions[k].config # NullConfig}

HistoryUnchanged ==
    /\ heap' = heap
    /\ history' = history
    /\ currentIndex' = currentIndex
    /\ commitIndex' = commitIndex

C23_Step(reason) ==
    (IsCall /\ ~Wired) =>
        /\ ~lastRun'.threw
        /\ \A k \in Dispatching :
              /\ \A j \in DOMAIN NewRecord.errors :
                    NewRecord.errors[j].actionIndex # k - 1
              /\ \E j \in DOMAIN NewRecord.actionsPerformed :
                    LET entry == NewRecord.actionsPerformed[j]
                    IN  /\ entry.index = k - 1
                        /\ ~entry.success
                        /\ entry.command = JsNull
                        /\ entry.type = "run_command" => entry.reason = reason
        /\ Forwarded(NewRecord.actionsPerformed) = <<>>
        /\ HistoryUnchanged

C28_DoubleApply ==
    [][(/\ IsCall
        /\ Len(Forwarded(NewRecord.actionsPerformed)) = 2
        /\ \A k \in 1 .. 2 :
              Forwarded(NewRecord.actionsPerformed)[k] \in ChangingCommands)
       => /\ Len(history') = Len(Slice(history, currentIndex + 1)) + 2
          /\ currentIndex' = Len(history') - 1
          /\ currentIndex' \in Indices(history')]_vars

----------------------------------------------------------------------------
(* What the claims about App's commands read off a step in which           *)
(* runCommand was called.                                                  *)

Ran(types) == lastCall'.op = "runCommand" /\ lastCall'.cmd.type \in types

(* C24: a command whose type is none of the recognized types, or that has  *)
(* no type, is ignored: runCommand raises nothing, no snapshot is          *)
(* appended, currentIndex and commitIndex stay, and no flow event is       *)
(* fired.                                                                  *)
C24_UnknownIgnored ==
    [][Ran({cmd.type : cmd \in UnknownCommands}) =>
          /\ {cmd.type : cmd \in UnknownCommands} \cap RecognizedTypes = {}
          /\ lastCall'.outcome # "raised"
          /\ HistoryUnchanged
          /\ lastFire' = lastFire]_vars

\* after one MoveTask, a command of the unknown type DeleteTask: still two
\* snapshots and one event fired
C24_Witness ==
    /\ lastCall.op = "runCommand"
    /\ lastCall.cmd.type = "DeleteTask"
    /\ lastCall.outcome = "done"
    /\ Len(history) = 2
    /\ currentIndex = 1
    /\ lastFire.n = 1

(* C26: on every Commit command a workspace.committed event is delivered   *)
(* to the flow engine, and every enabled flow attached for                 *)
(* workspace.committed is executed.                                        *)
C26_CommitEvent ==
    [][Ran({"Commit"}) =>
          /\ lastFire'.n = lastFire.n + 1
          /\ lastFire'.eventType = "workspace.committed"
          /\ \A key \in DOMAIN flowBindings :
                \A k \in DOMAIN flowBindings[key] :
                    LET binding == flowBindings[key][k]
                    IN  (/\ binding.eventType = "workspace.committed"
                         /\ InLibrary(binding)
                         /\ flowLibrary[FindIndex(flowLibrary, binding.flowId)].enabled)
                        => \E j \in DOMAIN lastFire'.invoked :
                              lastFire'.invoked[j].id = binding.flowId]_vars

----------------------------------------------------------------------------
(* C25: in the History panel the disabled entries are exactly those before *)
(* the commit baseline (index < commitIndex), and a click on an entry      *)
(* with commitIndex <= index <= history.length-1 invokes jump and moves    *)
(* currentIndex to that index.                                             *)
C25_PanelRevisits ==
    [][lastCall'.op = "click" =>
          /\ lastCall'.outcome = "disabled" <=> lastCall'.index < commitIndex
          /\ (commitIndex <= lastCall'.index
                /\ lastCall'.index <= Len(history) - 1)
              => currentIndex' = lastCall'.index]_vars

(* C29: in every reachable state the snapshots of the list have pairwise   *)
(* distinct ids, also after undo followed by further applyChange calls.    *)
C29_DistinctIds ==
    \A i, j \in Indices(history) :
        i # j => SnapshotAt(heap, history, i).id # SnapshotAt(heap, history, j).id

(* C30: commit is idempotent: a commit() directly after a commit() leaves  *)
(* the snapshot list with its labels and committed flags, currentIndex and *)
(* commitIndex as the first call left them.                                *)
C30_CommitIdempotent ==
    [][(lastCall.op = "commit" /\ lastCall'.op = "commit") =>
          /\ Len(history') = Len(history)
          /\ \A i \in Indices(history) :
                SnapshotAt(heap', history', i) = SnapshotAt(heap, history, i)
          /\ currentIndex' = currentIndex
          /\ commitIndex' = commitIndex]_vars

====
